---- MODULE Spec2Model ----
(***************************************************************************)
(* Model of src/main_script.py: the RCMAnalyzer pipeline that loads        *)
(* Medicare carrier claim lines, validates and cleans them, derives        *)
(* payment metrics, aggregates by procedure code and specialty, flags      *)
(* high-risk codes and writes the report artifacts.                        *)
(*                                                                         *)
(* Numbers.  Amounts are whole currency units and dates are day numbers    *)
(* (day 1 = 2022-01-01); sums and comparisons are exact.  A pandas         *)
(* missing value (NaN / NaT / None) is the empty tuple None and a present  *)
(* value v is <<v>>.  A float quotient is a record Ratio that keeps the    *)
(* IEEE outcomes of a division apart: "num" (num/den, den # 0), "nan"      *)
(* (0/0), "inf" and "ninf" (x/0).                                          *)
(***************************************************************************)
EXTENDS Integers, Sequences, FiniteSets, TLC

VARIABLES file, pc, df, df_clean, results, outputs, console, error

vars == <<file, pc, df, df_clean, results, outputs, console, error>>

(***************************************************************************)
(* Bounds of the model                                                     *)
(***************************************************************************)
MaxRows == 3
MaxAmt == 2
MaxShift == 3

(***************************************************************************)
(* Missing values and float arithmetic                                     *)
(***************************************************************************)
None == <<>>
Some(v) == <<v>>

\* a < b on two nullable numbers: a comparison with a missing operand is False
Lt(a, b) == a # None /\ b # None /\ a[1] < b[1]
Gt(a, b) == Lt(b, a)
\* a == b on two nullable numbers (NaN == x is False)
Eq(a, b) == a # None /\ b # None /\ a[1] = b[1]
\* a - b on two nullable numbers: missing if either operand is missing
Minus(a, b) == IF a = None \/ b = None THEN None ELSE Some(a[1] - b[1])

Abs(x) == IF x < 0 THEN -x ELSE x

NaN == [kind |-> "nan", num |-> 0, den |-> 0]
\* float division n / d of two present numbers (numpy: x/0 is +-inf, 0/0 is nan)
Divide(n, d) ==
  IF d # 0 THEN [kind |-> "num", num |-> n, den |-> d]
  ELSE IF n > 0 THEN [kind |-> "inf", num |-> 0, den |-> 0]
  ELSE IF n < 0 THEN [kind |-> "ninf", num |-> 0, den |-> 0]
  ELSE NaN
\* a / b on two nullable numbers
DivideNullable(a, b) == IF a = None \/ b = None THEN NaN ELSE Divide(a[1], b[1])

\* q < 0.9 on a float quotient (False on nan)
RatioLt09(q) ==
  \/ q.kind = "ninf"
  \/ q.kind = "num" /\ q.den > 0 /\ 10 * q.num < 9 * q.den
  \/ q.kind = "num" /\ q.den < 0 /\ 10 * q.num > 9 * q.den

\* Series.sum(): the sum of the present values of column c (skipna, 0 if none)
RECURSIVE ColSum(_, _)
ColSum(t, c) ==
  IF t = <<>> THEN 0
  ELSE (IF Head(t)[c] = None THEN 0 ELSE Head(t)[c][1]) + ColSum(Tail(t), c)

\* Series.count(): the number of present values of column c
RECURSIVE ColCount(_, _)
ColCount(t, c) ==
  IF t = <<>> THEN 0
  ELSE (IF Head(t)[c] = None THEN 0 ELSE 1) + ColCount(Tail(t), c)

\* sum of a plain (never missing) numeric column
RECURSIVE PlainSum(_, _)
PlainSum(t, c) == IF t = <<>> THEN 0 ELSE Head(t)[c] + PlainSum(Tail(t), c)

\* number of True values of a boolean column
RECURSIVE FlagCount(_, _)
FlagCount(t, c) ==
  IF t = <<>> THEN 0 ELSE (IF Head(t)[c] THEN 1 ELSE 0) + FlagCount(Tail(t), c)

\* 100 * Series.mean() of a boolean column (nan on an empty table)
FlagPct(t, c) == Divide(100 * FlagCount(t, c), Len(t))

\* .dt.year of a day number: day 1 is 2022-01-01, day 365 is 2022-12-31
Year(d) == IF d <= 0 THEN 2021 ELSE IF d <= 365 THEN 2022 ELSE 2023

ANALYSIS_YEAR == 2022

(***************************************************************************)
(* Raw input: a CSV cell is text.  It either parses to the value val or    *)
(* it does not (blank or garbage).                                         *)
(***************************************************************************)
Txt(v) == [parses |-> TRUE, val |-> v]
Bad == [parses |-> FALSE, val |-> 0]

\* pd.to_numeric(errors='coerce') / pd.to_datetime(errors='coerce') of a cell
Coerce(cell) == IF cell.parses THEN Some(cell.val) ELSE None

RawRow(clm, line, sbm, alw, nch, prv, exp, prc, hcpcs, spc) ==
  [CLM_ID |-> clm, LINE_NUM |-> line,
   LINE_SBMTD_CHRG_AMT |-> sbm, LINE_ALOWD_CHRG_AMT |-> alw,
   LINE_NCH_PMT_AMT |-> nch, LINE_PRVDR_PMT_AMT |-> prv,
   LINE_1ST_EXPNS_DT |-> exp, NCH_WKLY_PROC_DT |-> prc,
   HCPCS_CD |-> hcpcs, PRVDR_SPCLTY |-> spc]

\* The claim lines the input files are made of.  Procedure codes and
\* specialties are numbered in their sort order.
InputRows ==
  { RawRow(1, Some(1), Txt(3), Txt(2), Txt(1), Txt(1), Txt(1), Txt(2), Some(1), Some(1)),
    RawRow(1, Some(2), Txt(2), Txt(2), Txt(2), Txt(2), Txt(1), Txt(1), Some(2), Some(1)),
    RawRow(2, Some(1), Txt(1), Txt(1), Txt(0), Txt(0), Txt(2), Txt(1), Some(3), Some(2)),
    RawRow(2, Some(2), Txt(1), Txt(2), Txt(1), Txt(1), Txt(1), Txt(2), Some(1), Some(1)),
    RawRow(3, Some(1), Txt(2), Txt(2), Txt(1), Txt(2), Txt(1), Txt(2), Some(2), Some(2)),
    RawRow(3, Some(2), Txt(2), Txt(2), Txt(1), Txt(1), Txt(0), Txt(1), Some(1), Some(1)),
    RawRow(4, Some(1), Txt(2), Txt(2), Txt(1), Txt(1), Bad, Txt(1), Some(1), Some(1)),
    RawRow(4, Some(2), Txt(2), Bad, Txt(1), Txt(1), Txt(1), Txt(1), Some(2), Some(2)),
    RawRow(5, Some(1), Txt(2), Txt(2), Txt(1), Bad, Txt(1), Bad, None, Some(1)),
    RawRow(5, Some(2), Txt(200000), Txt(200000), Txt(199998), Txt(0), Txt(1), Txt(3), Some(3), None),
    RawRow(6, Some(1), Txt(100), Txt(100), Txt(95), Txt(95), Txt(1), Txt(2), Some(2), Some(2)),
    RawRow(7, None, Txt(2), Txt(0), Txt(-1), Bad, Txt(1), Txt(1), Some(1), Some(2)) }

\* Every claim line over small amounts and dates next to the year boundary
\* (day 0 = 2021-12-31), for the checks of the per-line rules.
Amounts == {Bad} \cup {Txt(v) : v \in -1..MaxAmt}
Dates == {Bad, Txt(0), Txt(1), Txt(2)}
AllRows ==
  { RawRow(1, Some(1), sbm, alw, nch, prv, exp, prc, Some(1), Some(1)) :
      sbm \in Amounts, alw \in Amounts, nch \in Amounts, prv \in Amounts,
      exp \in Dates, prc \in Dates }

\* The allowed and paid amounts of the aggregate checks: allowed amounts in
\* tens with a shortfall of a few units (realization rates on both sides of
\* 0.9), unpaid lines, and lines whose allowed amount does not parse.
Payments ==
  {<<Txt(10 * v), Txt(10 * v - d)>> : v \in 0..MaxAmt, d \in 0..MaxAmt}
    \cup {<<Txt(10 * v), Txt(0)>> : v \in 0..MaxAmt}
    \cup {<<Bad, Txt(v)>> : v \in -1..1}

\* One claim line of procedure code k, in 2022 and with a submitted charge
\* that covers every allowed amount.
CodeRows(k) ==
  { RawRow(k, Some(1), Txt(10 * MaxAmt), p[1], p[2], Bad, Txt(1), Txt(2), Some(k), Some(1)) :
      p \in Payments }

\* the files with one line for each of three procedure codes
CodeFiles == {<<a, b, c>> : a \in CodeRows(1), b \in CodeRows(2), c \in CodeRows(3)}

\* all sequences of length at most n over the set S
RECURSIVE SeqsUpTo(_, _)
SeqsUpTo(S, n) ==
  IF n = 0 THEN {<<>>}
  ELSE LET shorter == SeqsUpTo(S, n - 1)
       IN shorter \cup {Append(s, x) : s \in {q \in shorter : Len(q) = n - 1}, x \in S}

File(status, rows) == [status |-> status, rows |-> rows]

\* RCMAnalyzer.__init__ on some input file
InitOn(files) ==
  /\ file \in files
  /\ pc = "load_data"
  /\ df = None
  /\ df_clean = None
  /\ results = [k \in {} |-> 0]
  /\ outputs = {}
  /\ console = <<>>
  /\ error = "none"

Init ==
  InitOn({File("missing", <<>>), File("short", <<>>)}
         \cup {File("ok", rows) : rows \in SeqsUpTo(InputRows, MaxRows)})

InitRows == InitOn({File("ok", <<r>>) : r \in AllRows})

InitCodes == InitOn({File("ok", rows) : rows \in CodeFiles})

\* an exception leaves the stage and, uncaught, ends run_full_analysis
Raise(exc) == pc' = "failed" /\ error' = exc

(***************************************************************************)
(* load_data                                                               *)
(***************************************************************************)
\* drop([0, 1]).reset_index(drop=True): data rows get the index 0, 1, ...
reset_index(rows) == [i \in 1..Len(rows) |-> [index |-> i - 1] @@ rows[i]]

load_data ==
  /\ pc = "load_data"
  /\ console' = Append(console, "load_data")
  /\ IF file.status = "missing"
       THEN Raise("FileNotFoundError") /\ UNCHANGED df
     ELSE IF file.status = "short"
       THEN Raise("IndexError") /\ UNCHANGED df
     ELSE /\ df' = Some(reset_index(file.rows))
          /\ pc' = "clean_data"
          /\ UNCHANGED error
  /\ UNCHANGED <<file, df_clean, results, outputs>>

(***************************************************************************)
(* clean_data                                                              *)
(***************************************************************************)
\* DataFrame.duplicated(subset=["CLM_ID", "LINE_NUM"]): row i repeats an earlier key
duplicated(t, i) ==
  \E j \in 1..(i - 1) : t[j].CLM_ID = t[i].CLM_ID /\ t[j].LINE_NUM = t[i].LINE_NUM

dup_count(t) == Cardinality({i \in 1..Len(t) : duplicated(t, i)})

financial_cols ==
  {"LINE_SBMTD_CHRG_AMT", "LINE_ALOWD_CHRG_AMT", "LINE_NCH_PMT_AMT", "LINE_PRVDR_PMT_AMT"}
date_cols == {"LINE_1ST_EXPNS_DT", "NCH_WKLY_PROC_DT"}

\* steps 2 and 3: the financial and date columns of a row are coerced
CoerceRow(r) ==
  [c \in DOMAIN r |-> IF c \in financial_cols \cup date_cols THEN Coerce(r[c]) ELSE r[c]]

\* the allowed-against-paid comparison left out
FIN_LOGIC_VIOLATION_mut(r) ==
  \/ Lt(r.LINE_SBMTD_CHRG_AMT, r.LINE_ALOWD_CHRG_AMT)
  \/ Lt(r.LINE_NCH_PMT_AMT, r.LINE_PRVDR_PMT_AMT)

FIN_LOGIC_VIOLATION(r) ==
  \/ Lt(r.LINE_SBMTD_CHRG_AMT, r.LINE_ALOWD_CHRG_AMT)
  \/ Lt(r.LINE_ALOWD_CHRG_AMT, r.LINE_NCH_PMT_AMT)
  \/ Lt(r.LINE_NCH_PMT_AMT, r.LINE_PRVDR_PMT_AMT)

DATE_LOGIC_VIOLATION(r) == Lt(r.NCH_WKLY_PROC_DT, r.LINE_1ST_EXPNS_DT)

SERVICE_YEAR(r) ==
  IF r.LINE_1ST_EXPNS_DT = None THEN None ELSE Some(Year(r.LINE_1ST_EXPNS_DT[1]))

\* steps 2 to 6 on one row: coerced columns and the three derived columns
ValidateRow(r) ==
  LET c == CoerceRow(r)
  IN [FIN_LOGIC_VIOLATION |-> FIN_LOGIC_VIOLATION(c),
      DATE_LOGIC_VIOLATION |-> DATE_LOGIC_VIOLATION(c),
      SERVICE_YEAR |-> SERVICE_YEAR(c)] @@ c

In2022(r) == Eq(r.SERVICE_YEAR, Some(ANALYSIS_YEAR))
\* date-logic violations excluded as well
IsClean_mut(r) == r.FIN_LOGIC_VIOLATION = FALSE /\ r.DATE_LOGIC_VIOLATION = FALSE

IsClean(r) == r.FIN_LOGIC_VIOLATION = FALSE

clean_data ==
  /\ pc = "clean_data"
  /\ console' = Append(console, "clean_data")
  /\ LET validated == [i \in 1..Len(df[1]) |-> ValidateRow(df[1][i])]
         df_2022 == SelectSeq(validated, In2022)
     IN /\ df' = Some(validated)
        /\ df_clean' = Some(SelectSeq(df_2022, IsClean))
        \* excluded_pct = 100 * (1 - len(df_clean) / len(df_2022))
        /\ IF Len(df_2022) = 0
             THEN Raise("ZeroDivisionError")
             ELSE pc' = "calculate_metrics" /\ UNCHANGED error
  /\ UNCHANGED <<file, results, outputs>>

(***************************************************************************)
(* calculate_metrics                                                       *)
(***************************************************************************)
ATOL == 1
RTOL_INV == 100000

\* np.isclose(a, b, atol=1) with numpy's default rtol = 1e-05 and
\* equal_nan = False:  |a - b| <= atol + rtol * |b|
isclose(a, b) ==
  /\ a # None /\ b # None
  /\ RTOL_INV * Abs(a[1] - b[1]) <= RTOL_INV * ATOL + Abs(b[1])

PROCESSING_DELAY_DAYS(r) == Minus(r.NCH_WKLY_PROC_DT, r.LINE_1ST_EXPNS_DT)
UNDERPAYMENT_AMT(r) == Minus(r.LINE_ALOWD_CHRG_AMT, r.LINE_NCH_PMT_AMT)
REALIZATION_RATE(r) == DivideNullable(r.LINE_NCH_PMT_AMT, r.LINE_ALOWD_CHRG_AMT)
ZERO_PAID_FLAG(r) == Eq(r.LINE_NCH_PMT_AMT, Some(0))
PARTIAL_PAID_FLAG(r) ==
  /\ Gt(r.LINE_NCH_PMT_AMT, Some(0))
  /\ Lt(r.LINE_NCH_PMT_AMT, r.LINE_ALOWD_CHRG_AMT)
FULLY_PAID_FLAG(r) == isclose(r.LINE_NCH_PMT_AMT, r.LINE_ALOWD_CHRG_AMT)

\* the derived columns of one clean row
DeriveRow(r) ==
  [PROCESSING_DELAY_DAYS |-> PROCESSING_DELAY_DAYS(r),
   UNDERPAYMENT_AMT |-> UNDERPAYMENT_AMT(r),
   REALIZATION_RATE |-> REALIZATION_RATE(r),
   ZERO_PAID_FLAG |-> ZERO_PAID_FLAG(r),
   PARTIAL_PAID_FLAG |-> PARTIAL_PAID_FLAG(r),
   FULLY_PAID_FLAG |-> FULLY_PAID_FLAG(r)] @@ r

\* results['overall'] of the enriched clean table t
overall(t) ==
  [total_claims |-> Len(t),
   total_revenue |-> ColSum(t, "LINE_ALOWD_CHRG_AMT"),
   total_paid |-> ColSum(t, "LINE_NCH_PMT_AMT"),
   total_leakage |-> ColSum(t, "UNDERPAYMENT_AMT"),
   realization_rate |->
     Divide(100 * ColSum(t, "LINE_NCH_PMT_AMT"), ColSum(t, "LINE_ALOWD_CHRG_AMT")),
   zero_paid_pct |-> FlagPct(t, "ZERO_PAID_FLAG"),
   partial_paid_pct |-> FlagPct(t, "PARTIAL_PAID_FLAG"),
   avg_delay |->
     Divide(ColSum(t, "PROCESSING_DELAY_DAYS"), ColCount(t, "PROCESSING_DELAY_DAYS"))]

calculate_metrics ==
  /\ pc = "calculate_metrics"
  /\ console' = Append(console, "calculate_metrics")
  /\ LET enriched == [i \in 1..Len(df_clean[1]) |-> DeriveRow(df_clean[1][i])]
     IN /\ df_clean' = Some(enriched)
        /\ results' = results @@ ("overall" :> overall(enriched))
  /\ pc' = "analyze_hcpcs"
  /\ UNCHANGED <<file, df, outputs, error>>

(***************************************************************************)
(* analyze_hcpcs, analyze_specialty                                        *)
(***************************************************************************)
\* the keys of groupby(col): the present values of the column, ascending
\* (rows whose key is missing belong to no group: dropna=True)
RECURSIVE Ascending(_)
Ascending(S) ==
  IF S = {} THEN <<>>
  ELSE LET m == CHOOSE x \in S : \A y \in S : x <= y
       IN <<m>> \o Ascending(S \ {m})

GroupKeys(t, col) == Ascending({t[i][col][1] : i \in {j \in 1..Len(t) : t[j][col] # None}})

Group(t, col, k) == SelectSeq(t, LAMBDA r : r[col] = Some(k))

HcpcsRow(g, k) ==
  [HCPCS_CD |-> k,
   services |-> ColCount(g, "LINE_NUM"),
   allowed_amt |-> ColSum(g, "LINE_ALOWD_CHRG_AMT"),
   paid_amt |-> ColSum(g, "LINE_NCH_PMT_AMT"),
   underpayment_amt |-> ColSum(g, "UNDERPAYMENT_AMT"),
   total_delays |-> ColSum(g, "PROCESSING_DELAY_DAYS"),
   realization_rate |->
     Divide(ColSum(g, "LINE_NCH_PMT_AMT"), ColSum(g, "LINE_ALOWD_CHRG_AMT"))]

\* df.groupby("HCPCS_CD").agg(...) with the realization_rate column
hcpcs_groups(t) ==
  LET keys == GroupKeys(t, "HCPCS_CD")
  IN [i \in 1..Len(keys) |-> HcpcsRow(Group(t, "HCPCS_CD", keys[i]), keys[i])]

Orderings(n) == {p \in [1..n -> 1..n] : \A i, j \in 1..n : p[i] = p[j] => i = j}

\* sort_values("underpayment_amt", ascending=False): the default quicksort
\* is not stable, so rows with equal underpayment may come out in any order
sort_values(t) ==
  {s \in {[i \in 1..Len(t) |-> t[p[i]]] : p \in Orderings(Len(t))} :
     \A i \in 1..(Len(s) - 1) : s[i].underpayment_amt >= s[i + 1].underpayment_amt}

\* the running sum of underpayment_amt up to row i
RECURSIVE cumsum(_, _)
cumsum(t, i) == IF i = 0 THEN 0 ELSE t[i].underpayment_amt + cumsum(t, i - 1)

\* the share of the row itself instead of the running sum
cum_underpayment_pct_mut(t, i) ==
  Divide(t[i].underpayment_amt, PlainSum(t, "underpayment_amt"))

cum_underpayment_pct(t, i) == Divide(cumsum(t, i), PlainSum(t, "underpayment_amt"))

WithPareto(t) ==
  [i \in 1..Len(t) |-> [cum_underpayment_pct |-> cum_underpayment_pct(t, i)] @@ t[i]]

analyze_hcpcs ==
  /\ pc = "analyze_hcpcs"
  /\ console' = Append(console, "analyze_hcpcs")
  /\ \E sorted \in sort_values(hcpcs_groups(df_clean[1])) :
       results' = results @@ ("hcpcs" :> WithPareto(sorted))
  /\ pc' = "analyze_specialty"
  /\ UNCHANGED <<file, df, df_clean, outputs, error>>

SpecialtyRow(g, k) ==
  [PRVDR_SPCLTY |-> k,
   allowed_amt |-> ColSum(g, "LINE_ALOWD_CHRG_AMT"),
   paid_amt |-> ColSum(g, "LINE_NCH_PMT_AMT"),
   underpayment_amt |-> ColSum(g, "UNDERPAYMENT_AMT"),
   realization_rate |->
     Divide(ColSum(g, "LINE_NCH_PMT_AMT"), ColSum(g, "LINE_ALOWD_CHRG_AMT"))]

specialty_groups(t) ==
  LET keys == GroupKeys(t, "PRVDR_SPCLTY")
  IN [i \in 1..Len(keys) |-> SpecialtyRow(Group(t, "PRVDR_SPCLTY", keys[i]), keys[i])]

analyze_specialty ==
  /\ pc = "analyze_specialty"
  /\ console' = Append(console, "analyze_specialty")
  /\ results' = results @@ ("specialty" :> specialty_groups(df_clean[1]))
  /\ pc' = "identify_risks"
  /\ UNCHANGED <<file, df, df_clean, outputs, error>>

(***************************************************************************)
(* identify_risks                                                          *)
(***************************************************************************)
\* insertion of x into an ascending sequence
RECURSIVE Insert(_, _)
Insert(x, s) ==
  IF s = <<>> THEN <<x>>
  ELSE IF x <= Head(s) THEN <<x>> \o s
  ELSE <<Head(s)>> \o Insert(x, Tail(s))

RECURSIVE SortAsc(_)
SortAsc(s) == IF s = <<>> THEN <<>> ELSE Insert(Head(s), SortAsc(Tail(s)))

underpayment_col(t) == [i \in 1..Len(t) |-> t[i].underpayment_amt]

\* the percentile rounded up to the next order statistic
quantile_mut(col) ==
  IF col = <<>> THEN None
  ELSE Some(10 * SortAsc(col)[((9 * (Len(col) - 1) + 9) \div 10) + 1])

\* Series.quantile(0.9), linear interpolation, as ten times its value:
\* position 0.9 * (n - 1) between the order statistics lo and lo + 1.
\* Missing on an empty column.
quantile(col) ==
  IF col = <<>> THEN None
  ELSE LET v == SortAsc(col)
           n == Len(v)
           lo == (9 * (n - 1)) \div 10
           tenths == (9 * (n - 1)) % 10
           hi == IF tenths = 0 THEN lo ELSE lo + 1
       IN Some(10 * v[lo + 1] + tenths * (v[hi + 1] - v[lo + 1]))

\* the underpayment comparison turned around
HIGH_RISK_FLAG_mut(t, i) ==
  \/ Lt(Some(10 * t[i].underpayment_amt), quantile(underpayment_col(t)))
  \/ RatioLt09(t[i].realization_rate)

HIGH_RISK_FLAG(t, i) ==
  \/ Gt(Some(10 * t[i].underpayment_amt), quantile(underpayment_col(t)))
  \/ RatioLt09(t[i].realization_rate)

\* hcpcs_summary[hcpcs_summary["HIGH_RISK_FLAG"]] with the flag column
high_risk(t) ==
  LET flagged == [i \in 1..Len(t) |-> [HIGH_RISK_FLAG |-> HIGH_RISK_FLAG(t, i)] @@ t[i]]
  IN SelectSeq(flagged, LAMBDA r : r.HIGH_RISK_FLAG)

identify_risks ==
  /\ pc = "identify_risks"
  /\ console' = Append(console, "identify_risks")
  /\ results' = results @@ ("high_risk" :> high_risk(results["hcpcs"]))
  /\ pc' = "export_results"
  /\ UNCHANGED <<file, df, df_clean, outputs, error>>

(***************************************************************************)
(* export_results, generate_visualizations, print_summary                  *)
(***************************************************************************)
\* the files export_results writes, in the order it writes them
export_files ==
  <<"RCM_Analysis_Final.xlsx", "hcpcs_summary.csv", "specialty_summary.csv",
    "high_risk_services.csv">>

figure_files == <<"revenue_waterfall.png", "pareto_hcpcs.png", "payment_distribution.png">>

FirstN(s, n) == {s[i] : i \in 1..n}

\* A stage that writes the files fs one after the other.  A write may fail
\* with an OSError (disk full, unwritable directory); the files written
\* before it stay on disk, nothing removes them.
WriteFiles(fs, next) ==
  \E n \in 0..Len(fs) :
    /\ outputs' = outputs \cup FirstN(fs, n)
    /\ IF n < Len(fs) THEN Raise("OSError") ELSE pc' = next /\ UNCHANGED error

export_results ==
  /\ pc = "export_results"
  /\ console' = Append(console, "export_results")
  /\ WriteFiles(export_files, "generate_visualizations")
  /\ UNCHANGED <<file, df, df_clean, results>>

generate_visualizations ==
  /\ pc = "generate_visualizations"
  /\ console' = Append(console, "generate_visualizations")
  /\ WriteFiles(figure_files, "print_summary")
  /\ UNCHANGED <<file, df, df_clean, results>>

print_summary ==
  /\ pc = "print_summary"
  /\ console' = Append(console, "print_summary")
  /\ pc' = "done"
  /\ UNCHANGED <<file, df, df_clean, results, outputs, error>>

(***************************************************************************)
(* run_full_analysis: the stages in sequence                               *)
(***************************************************************************)
Next ==
  \/ load_data
  \/ clean_data
  \/ calculate_metrics
  \/ analyze_hcpcs
  \/ analyze_specialty
  \/ identify_risks
  \/ export_results
  \/ generate_visualizations
  \/ print_summary

Spec == Init /\ [][Next]_vars

\* the pipeline on every single claim line over small amounts and dates
SpecRows == InitRows /\ [][Next]_vars

\* the pipeline on every file with one small claim line per procedure code
SpecCodes == InitCodes /\ [][Next]_vars

(***************************************************************************)
(* Properties                                                              *)
(***************************************************************************)
Stages ==
  <<"load_data", "clean_data", "calculate_metrics", "analyze_hcpcs", "analyze_specialty",
    "identify_risks", "export_results", "generate_visualizations", "print_summary">>

Cleaned == df_clean # None
MetricsDone == "overall" \in DOMAIN results
HcpcsDone == "hcpcs" \in DOMAIN results
RisksDone == "high_risk" \in DOMAIN results

AllFourPresent(r) ==
  /\ r.LINE_SBMTD_CHRG_AMT # None /\ r.LINE_ALOWD_CHRG_AMT # None
  /\ r.LINE_NCH_PMT_AMT # None /\ r.LINE_PRVDR_PMT_AMT # None

\* C1: after clean_data every clean record whose four amounts are all
\* present has submitted >= allowed >= paid-to-plan >= paid-to-provider.
C1_CleanAmountsOrdered ==
  Cleaned =>
    \A k \in 1..Len(df_clean[1]) :
      LET r == df_clean[1][k]
      IN AllFourPresent(r) =>
           /\ r.LINE_SBMTD_CHRG_AMT[1] >= r.LINE_ALOWD_CHRG_AMT[1]
           /\ r.LINE_ALOWD_CHRG_AMT[1] >= r.LINE_NCH_PMT_AMT[1]
           /\ r.LINE_NCH_PMT_AMT[1] >= r.LINE_PRVDR_PMT_AMT[1]

\* a clean record with its four amounts present
C1_Witness ==
  /\ Cleaned
  /\ \E k \in 1..Len(df_clean[1]) :
       /\ AllFourPresent(df_clean[1][k])
       /\ df_clean[1][k].LINE_SBMTD_CHRG_AMT[1] > df_clean[1][k].LINE_PRVDR_PMT_AMT[1]

\* C2: when the year filter or the violation exclusion leaves no record the
\* run ends in the state EmptyDatasetError, no aggregation stage has run and
\* no output file is written.
C2_EmptyDatasetError ==
  (Cleaned /\ Len(df_clean[1]) = 0) =>
    /\ pc = "failed"
    /\ error = "EmptyDatasetError"
    /\ DOMAIN results \cap {"hcpcs", "specialty", "high_risk"} = {}
    /\ outputs = {}

\* C3: after calculate_metrics every clean record has exactly one of the
\* three payment flags, except that partial-paid and fully-paid are both
\* true exactly when 0 < paid < allowed and allowed - paid <= 1.
C3_PaymentFlagsExclusive ==
  MetricsDone =>
    \A k \in 1..Len(df_clean[1]) :
      LET r == df_clean[1][k]
          paid == r.LINE_NCH_PMT_AMT
          allowed == r.LINE_ALOWD_CHRG_AMT
          boundary == /\ Gt(paid, Some(0))
                      /\ Lt(paid, allowed)
                      /\ allowed[1] - paid[1] <= 1
      IN /\ r.ZERO_PAID_FLAG \/ r.PARTIAL_PAID_FLAG \/ r.FULLY_PAID_FLAG
         /\ ~(r.ZERO_PAID_FLAG /\ r.PARTIAL_PAID_FLAG)
         /\ ~(r.ZERO_PAID_FLAG /\ r.FULLY_PAID_FLAG)
         /\ (r.PARTIAL_PAID_FLAG /\ r.FULLY_PAID_FLAG) <=> boundary

\* p <= q on two float quotients (False if either is not a number)
RatioLeq(p, q) ==
  /\ p.kind = "num" /\ q.kind = "num" /\ p.den > 0 /\ q.den > 0
  /\ p.num * q.den <= q.num * p.den

RatioIsOne(p) == p.kind = "num" /\ p.num = p.den

\* C4 as stated: after analyze_hcpcs on a non-empty clean dataset the
\* cum_underpayment_pct column, in the table's order, is non-decreasing and
\* its last value is 1.0.
C4_ParetoAlways ==
  (HcpcsDone /\ Len(df_clean[1]) > 0) =>
    LET t == results["hcpcs"]
    IN /\ Len(t) > 0
       /\ \A i \in 1..(Len(t) - 1) :
            RatioLeq(t[i].cum_underpayment_pct, t[i + 1].cum_underpayment_pct)
       /\ RatioIsOne(t[Len(t)].cum_underpayment_pct)

\* C4 amended: after analyze_hcpcs the table is sorted descending by
\* underpayment_amt; when the underpayment total of the table is positive
\* the cum_underpayment_pct column is non-decreasing and its last value is
\* 1.0; when the total is 0 every value of the column is NaN.
C4_ParetoPositiveTotal ==
  HcpcsDone =>
    LET t == results["hcpcs"]
        total == PlainSum(t, "underpayment_amt")
    IN /\ \A i \in 1..(Len(t) - 1) : t[i].underpayment_amt >= t[i + 1].underpayment_amt
       /\ total >= 0
       /\ total > 0 =>
            /\ \A i \in 1..(Len(t) - 1) :
                 RatioLeq(t[i].cum_underpayment_pct, t[i + 1].cum_underpayment_pct)
            /\ RatioIsOne(t[Len(t)].cum_underpayment_pct)
       /\ total = 0 => \A i \in 1..Len(t) : t[i].cum_underpayment_pct = NaN

\* a table of three codes whose shares rise strictly to 1.0
C4_Witness ==
  /\ HcpcsDone
  /\ LET t == results["hcpcs"]
     IN /\ Len(t) = 3
        /\ t[1].underpayment_amt > t[2].underpayment_amt
        /\ t[2].underpayment_amt > 0
        /\ ~RatioLeq(t[2].cum_underpayment_pct, t[1].cum_underpayment_pct)
        /\ RatioIsOne(t[3].cum_underpayment_pct)

\* the k-th smallest (k = 0, 1, ...) underpayment_amt of the table t
OrderStatistic(t, k) ==
  CHOOSE v \in {t[j].underpayment_amt : j \in 1..Len(t)} :
    /\ Cardinality({j \in 1..Len(t) : t[j].underpayment_amt < v}) <= k
    /\ k < Cardinality({j \in 1..Len(t) : t[j].underpayment_amt <= v})

\* ten times the linear-interpolation 90th percentile of underpayment_amt
Percentile90(t) ==
  LET h == 9 * (Len(t) - 1)
      lo == h \div 10
      w == h % 10
  IN IF w = 0 THEN 10 * OrderStatistic(t, lo)
     ELSE (10 - w) * OrderStatistic(t, lo) + w * OrderStatistic(t, lo + 1)

\* paid / allowed is a number (or -inf) below 0.9
RatePresentBelow09(row) ==
  \/ row.allowed_amt > 0 /\ 10 * row.paid_amt < 9 * row.allowed_amt
  \/ row.allowed_amt < 0 /\ 10 * row.paid_amt > 9 * row.allowed_amt
  \/ row.allowed_amt = 0 /\ row.paid_amt < 0

ShouldFlag(t, i) ==
  \/ 10 * t[i].underpayment_amt > Percentile90(t)
  \/ RatePresentBelow09(t[i])

PositionOf(t, code) == CHOOSE i \in 1..Len(t) : t[i].HCPCS_CD = code

\* C5: identify_risks returns exactly the rows of the procedure-code table
\* whose underpayment_amt is above the linear-interpolation 90th percentile
\* of the column or whose realization rate is present and below 0.9, in the
\* order of the table.
C5_HighRiskExact ==
  RisksDone =>
    LET t == results["hcpcs"]
        hr == results["high_risk"]
    IN /\ Len(hr) = Cardinality({i \in 1..Len(t) : ShouldFlag(t, i)})
       /\ \A k \in 1..Len(hr) :
            \E i \in 1..Len(t) :
              /\ ShouldFlag(t, i)
              /\ hr[k] = [HIGH_RISK_FLAG |-> TRUE] @@ t[i]
       /\ \A k \in 1..(Len(hr) - 1) :
            PositionOf(t, hr[k].HCPCS_CD) < PositionOf(t, hr[k + 1].HCPCS_CD)

\* three codes: one flagged by its underpayment alone, one by its rate
\* alone, one not flagged
C5_Witness ==
  /\ RisksDone
  /\ LET t == results["hcpcs"]
     IN /\ Len(t) = 3
        /\ Len(results["high_risk"]) = 2
        /\ \E i \in 1..3 :
             10 * t[i].underpayment_amt > Percentile90(t) /\ ~RatePresentBelow09(t[i])
        /\ \E i \in 1..3 :
             10 * t[i].underpayment_amt <= Percentile90(t) /\ RatePresentBelow09(t[i])
        /\ \E i \in 1..3 : t[i].realization_rate = NaN

\* C6: a group that identify_risks flags stays flagged when its
\* underpayment_amt is raised and the rest of the table is kept (the
\* percentile being recomputed from the changed table).
C6_FlagMonotone ==
  RisksDone =>
    LET t == results["hcpcs"]
        hr == results["high_risk"]
    IN \A i \in 1..Len(t), d \in 1..MaxShift :
         (\E k \in 1..Len(hr) : hr[k].HCPCS_CD = t[i].HCPCS_CD) =>
           HIGH_RISK_FLAG([t EXCEPT ![i].underpayment_amt = @ + d], i)

\* a group flagged by its underpayment alone whose raise moves the percentile
C6_Witness ==
  /\ RisksDone
  /\ LET t == results["hcpcs"]
         hr == results["high_risk"]
     IN \E i \in 1..Len(t) :
          /\ Len(t) = 3
          /\ \E k \in 1..Len(hr) : hr[k].HCPCS_CD = t[i].HCPCS_CD
          /\ ~RatioLt09(t[i].realization_rate)
          /\ quantile(underpayment_col([t EXCEPT ![i].underpayment_amt = @ + 1]))
               # quantile(underpayment_col(t))

\* C7: the overall realization rate is 100 * (sum of paid) / (sum of
\* allowed) over the clean records, and it is NaN whenever the total allowed
\* amount is 0.
C7_RealizationRatioOfSums ==
  MetricsDone =>
    LET rate == results["overall"].realization_rate
        paid == ColSum(df_clean[1], "LINE_NCH_PMT_AMT")
        allowed == ColSum(df_clean[1], "LINE_ALOWD_CHRG_AMT")
    IN /\ allowed # 0 =>
            rate.kind = "num" /\ rate.num * allowed = 100 * paid * rate.den
       /\ allowed = 0 => rate = NaN

\* C8: the stages run in the fixed order, and a run that has failed has
\* written no output artifact.
C8_NoOutputOnFailure ==
  /\ Len(console) <= Len(Stages)
  /\ console = SubSeq(Stages, 1, Len(console))
  /\ pc = "failed" => outputs = {}

\* the record of the input file passes the year filter and the
\* financial-logic check, a comparison with an unparseable amount being false
ExpectedClean(raw) ==
  /\ raw.LINE_1ST_EXPNS_DT.parses
  /\ raw.LINE_1ST_EXPNS_DT.val \in 1..365
  /\ ~(/\ raw.LINE_SBMTD_CHRG_AMT.parses /\ raw.LINE_ALOWD_CHRG_AMT.parses
       /\ raw.LINE_SBMTD_CHRG_AMT.val < raw.LINE_ALOWD_CHRG_AMT.val)
  /\ ~(/\ raw.LINE_ALOWD_CHRG_AMT.parses /\ raw.LINE_NCH_PMT_AMT.parses
       /\ raw.LINE_ALOWD_CHRG_AMT.val < raw.LINE_NCH_PMT_AMT.val)
  /\ ~(/\ raw.LINE_NCH_PMT_AMT.parses /\ raw.LINE_PRVDR_PMT_AMT.parses
       /\ raw.LINE_NCH_PMT_AMT.val < raw.LINE_PRVDR_PMT_AMT.val)

\* C9: after clean_data a loaded record is in the clean dataset if and only
\* if its service year is 2022 and it has no financial-logic violation; the
\* clean records keep the order of the file and none is dropped for a date
\* violation or for repeating a claim id and line number.
C9_CleanSetExact ==
  Cleaned =>
    LET dc == df_clean[1]
        rows == file.rows
    IN /\ \A i \in 1..Len(rows) :
            ExpectedClean(rows[i]) <=> \E k \in 1..Len(dc) : dc[k].index = i - 1
       /\ \A k \in 1..(Len(dc) - 1) : dc[k].index < dc[k + 1].index
       /\ \A k \in 1..Len(dc) :
            /\ dc[k].index + 1 \in 1..Len(rows)
            /\ dc[k].CLM_ID = rows[dc[k].index + 1].CLM_ID
            /\ dc[k].LINE_NUM = rows[dc[k].index + 1].LINE_NUM

\* a file with a record without a first-expense date, and a duplicated
\* record with a date violation, both copies of which are clean
C9_Witness ==
  /\ Cleaned
  /\ \E i \in 1..Len(df[1]) : df[1][i].LINE_1ST_EXPNS_DT = None
  /\ dup_count(df[1]) > 0
  /\ \E l \in 1..Len(df_clean[1]) :
       /\ duplicated(df_clean[1], l)
       /\ df_clean[1][l].DATE_LOGIC_VIOLATION

\* C10: after analyze_hcpcs the underpayment_amt of the procedure-code
\* groups sums to total_leakage and their services counts sum to
\* total_claims.
C10_GroupsCoverCleanSet ==
  HcpcsDone =>
    /\ PlainSum(results["hcpcs"], "underpayment_amt") = results["overall"].total_leakage
    /\ PlainSum(results["hcpcs"], "services") = results["overall"].total_claims
====
